---- MODULE Spec2Model ----
(***************************************************************************)
(* A model of the fixed-size thread pool of src/src/lib.rs: the mpsc       *)
(* channel of boxed jobs, the Arc<Mutex<Receiver>> shared by the worker    *)
(* threads, the worker loop, ThreadPool::execute and Drop for ThreadPool.  *)
(***************************************************************************)
EXTENDS Integers, Sequences, FiniteSets, TLC

\* Largest pool size passed to ThreadPool::new.
MaxSize == 2
\* Largest number of jobs handed to execute in one run.
MaxJobs == 3
\* Number of threads that call execute through a shared &ThreadPool.
NumCallers == 2

VARIABLES
    pcMain,        \* where the owner of the pool is: "start", "aborted" (new(0)
                   \* panicked), "alive", "joining" / "blocked" (inside drop),
                   \* "returned" (drop returned), "panicked" (drop panicked)
    size,          \* the argument of ThreadPool::new; 0 before construction
    sender,        \* ThreadPool.sender is Some
    threads,       \* ThreadPool.threads: slot i is Some
    queue,         \* the jobs in the channel, oldest first
    receiverRefs,  \* strong count of the Arc holding the Receiver
    mutex,         \* the worker holding the MutexGuard, 0 when unlocked
    pc,            \* each worker thread's position in its loop
    job,           \* the job in a worker's `message` (0: none / Err)
    joinIdx,       \* position of drop's loop over self.threads
    disconnected,  \* ids printed by drop's "disconnected" line, in order
    numSubmitted,  \* number of jobs sent so far; jobs are numbered in send order
    submitters,    \* the callers that sent a job
    callerDown,    \* callers whose execute panicked
    dequeued,      \* jobs in the order recv returned them
    started,       \* jobs in the order workers called them
    completed,     \* jobs in the order they returned
    queuedAtDrop,  \* length of the queue when drop released the sender (-1 before)
    sentWhileBusy  \* some send happened while every worker was running a job

vars == <<pcMain, size, sender, threads, queue, receiverRefs, mutex, pc, job,
          joinIdx, disconnected, numSubmitted, submitters, callerDown,
          dequeued, started, completed, queuedAtDrop, sentWhileBusy>>

Callers == 1..NumCallers
Workers == 1..size

Init ==
    /\ pcMain = "start"
    /\ size = 0
    /\ sender = FALSE
    /\ threads = <<>>
    /\ queue = <<>>
    /\ receiverRefs = 0
    /\ mutex = 0
    /\ pc = <<>>
    /\ job = <<>>
    /\ joinIdx = 0
    /\ disconnected = <<>>
    /\ numSubmitted = 0
    /\ submitters = {}
    /\ callerDown = {}
    /\ dequeued = <<>>
    /\ started = <<>>
    /\ completed = <<>>
    /\ queuedAtDrop = -1
    /\ sentWhileBusy = FALSE

\* new without the assertion: new(0) returns a pool with no workers.
NewNoAssert(n) ==
    /\ pcMain = "start"
    /\ pcMain' = "alive"
    /\ size' = n
    /\ sender' = TRUE
    /\ threads' = [i \in 1..n |-> TRUE]
    /\ receiverRefs' = n
    /\ pc' = [i \in 1..n |-> "Waiting"]
    /\ job' = [i \in 1..n |-> 0]
    /\ UNCHANGED <<queue, mutex, joinIdx, disconnected, numSubmitted,
                   submitters, callerDown, dequeued, started, completed,
                   queuedAtDrop, sentWhileBusy>>

\* ThreadPool::new(n): assert!(size > 0), then the channel, the shared
\* receiver and n spawned workers, each at the top of its loop. The local
\* `receiver` Arc is dropped when new returns, leaving one clone per worker.
New(n) ==
    /\ pcMain = "start"
    /\ IF n = 0
       THEN /\ pcMain' = "aborted"
            /\ UNCHANGED <<size, sender, threads, receiverRefs, pc, job>>
       ELSE /\ pcMain' = "alive"
            /\ size' = n
            /\ sender' = TRUE
            /\ threads' = [i \in 1..n |-> TRUE]
            /\ receiverRefs' = n
            /\ pc' = [i \in 1..n |-> "Waiting"]
            /\ job' = [i \in 1..n |-> 0]
    /\ UNCHANGED <<queue, mutex, joinIdx, disconnected, numSubmitted, submitters, callerDown,
                   dequeued, started, completed, queuedAtDrop, sentWhileBusy>>

AllRunning == \A w \in Workers : pc[w] = "Running"

\* The ThreadPool value exists: it was built and drop has not finished.
PoolExists == pcMain \in {"alive", "joining", "blocked"}

\* Send that puts the job at the front of the queue.
SendFront(q, j) == <<j>> \o q

\* Send whose write races with the previous one and overwrites it.
SendOverwrite(q, j) == IF q = <<>> THEN <<j>> ELSE [q EXCEPT ![Len(q)] = j]

\* mpsc::Sender::send on the unbounded channel: appends, never waits.
Send(q, j) == Append(q, j)

\* execute on a rendezvous channel: waits until a worker is inside recv.
ExecuteRendezvous(c) ==
    /\ pcMain = "alive"
    /\ c \notin callerDown
    /\ numSubmitted < MaxJobs
    /\ sender
    /\ receiverRefs > 0
    /\ queue = <<>>
    /\ \E w \in Workers : pc[w] = "Receiving"
    /\ queue' = Send(queue, numSubmitted + 1)
    /\ numSubmitted' = numSubmitted + 1
    /\ submitters' = submitters \cup {c}
    /\ UNCHANGED <<pcMain, size, sender, threads, receiverRefs, mutex, pc, job,
                   joinIdx, disconnected, callerDown, dequeued, started,
                   completed, queuedAtDrop, sentWhileBusy>>

\* ThreadPool::execute called by caller c while the sender is held and the
\* Receiver still exists: the boxed job is sent.
Execute(c) ==
    /\ PoolExists
    /\ c \notin callerDown
    /\ numSubmitted < MaxJobs
    /\ sender
    /\ receiverRefs > 0
    /\ queue' = Send(queue, numSubmitted + 1)
    /\ numSubmitted' = numSubmitted + 1
    /\ submitters' = submitters \cup {c}
    /\ sentWhileBusy' = (sentWhileBusy \/ AllRunning)
    /\ UNCHANGED <<pcMain, size, sender, threads, receiverRefs, mutex, pc, job,
                   joinIdx, disconnected, callerDown, dequeued, started,
                   completed, queuedAtDrop>>

\* ThreadPool::execute when send returns Err (the Receiver was dropped with
\* the last worker): unwrap panics in the caller and the job is dropped with
\* the error.
ExecuteFail(c) ==
    /\ PoolExists
    /\ c \notin callerDown
    /\ numSubmitted < MaxJobs
    /\ sender
    /\ receiverRefs = 0
    /\ callerDown' = callerDown \cup {c}
    /\ UNCHANGED <<pcMain, size, sender, threads, queue, receiverRefs, mutex,
                   pc, job, joinIdx, disconnected, numSubmitted, submitters, dequeued,
                   started, completed, queuedAtDrop, sentWhileBusy>>

\* execute that returns silently when the sender slot is empty.
ExecuteNoSenderSwallowed(c) ==
    /\ PoolExists
    /\ c \notin callerDown
    /\ ~sender
    /\ UNCHANGED vars

\* ThreadPool::execute when the sender slot is None (drop has taken it):
\* self.sender.as_ref().unwrap() panics in the caller before anything is
\* sent, and the job is dropped.
ExecuteNoSender(c) ==
    /\ PoolExists
    /\ c \notin callerDown
    /\ ~sender
    /\ callerDown' = callerDown \cup {c}
    /\ UNCHANGED <<pcMain, size, sender, threads, queue, receiverRefs, mutex,
                   pc, job, joinIdx, disconnected, numSubmitted, submitters,
                   dequeued, started, completed, queuedAtDrop, sentWhileBusy>>

\* lock that does not wait for the current holder.
LockNoWait(w) ==
    /\ w \in Workers
    /\ pc[w] = "Waiting"
    /\ mutex' = w
    /\ pc' = [pc EXCEPT ![w] = "Receiving"]
    /\ UNCHANGED <<pcMain, size, sender, threads, queue, receiverRefs, job,
                   joinIdx, disconnected, numSubmitted, submitters, callerDown, dequeued,
                   started, completed, queuedAtDrop, sentWhileBusy>>

\* receiver.lock(): blocks until the mutex is free. (The mutex is never
\* poisoned: the guard is dropped before job() can panic.)
Lock(w) ==
    /\ w \in Workers
    /\ pc[w] = "Waiting"
    /\ mutex = 0
    /\ mutex' = w
    /\ pc' = [pc EXCEPT ![w] = "Receiving"]
    /\ UNCHANGED <<pcMain, size, sender, threads, queue, receiverRefs, job,
                   joinIdx, disconnected, numSubmitted, submitters, callerDown, dequeued,
                   started, completed, queuedAtDrop, sentWhileBusy>>

\* recv that takes the newest job of the queue instead of the oldest.
RecvNewest(w) ==
    /\ w \in Workers
    /\ pc[w] = "Receiving"
    /\ IF queue # <<>>
       THEN /\ job' = [job EXCEPT ![w] = queue[Len(queue)]]
            /\ queue' = SubSeq(queue, 1, Len(queue) - 1)
            /\ dequeued' = Append(dequeued, queue[Len(queue)])
       ELSE /\ ~sender
            /\ job' = [job EXCEPT ![w] = 0]
            /\ UNCHANGED <<queue, dequeued>>
    /\ pc' = [pc EXCEPT ![w] = "Received"]
    /\ UNCHANGED <<pcMain, size, sender, threads, receiverRefs, mutex, joinIdx,
                   disconnected, numSubmitted, submitters, callerDown, started,
                   completed, queuedAtDrop, sentWhileBusy>>

\* recv that hands out the oldest job without removing it.
RecvPeek(w) ==
    /\ w \in Workers
    /\ pc[w] = "Receiving"
    /\ IF queue # <<>>
       THEN /\ job' = [job EXCEPT ![w] = Head(queue)]
            /\ dequeued' = Append(dequeued, Head(queue))
            /\ UNCHANGED queue
       ELSE /\ ~sender
            /\ job' = [job EXCEPT ![w] = 0]
            /\ UNCHANGED <<queue, dequeued>>
    /\ pc' = [pc EXCEPT ![w] = "Received"]
    /\ UNCHANGED <<pcMain, size, sender, threads, receiverRefs, mutex, joinIdx,
                   disconnected, numSubmitted, submitters, callerDown, started, completed,
                   queuedAtDrop, sentWhileBusy>>

\* recv that reports Err as soon as the sender is gone, queued jobs or not.
RecvEagerClose(w) ==
    /\ w \in Workers
    /\ pc[w] = "Receiving"
    /\ IF sender
       THEN /\ queue # <<>>
            /\ job' = [job EXCEPT ![w] = Head(queue)]
            /\ queue' = Tail(queue)
            /\ dequeued' = Append(dequeued, Head(queue))
       ELSE /\ job' = [job EXCEPT ![w] = 0]
            /\ UNCHANGED <<queue, dequeued>>
    /\ pc' = [pc EXCEPT ![w] = "Received"]
    /\ UNCHANGED <<pcMain, size, sender, threads, receiverRefs, mutex, joinIdx,
                   disconnected, numSubmitted, submitters, callerDown, started, completed,
                   queuedAtDrop, sentWhileBusy>>

\* recv that is never woken by the sender going away.
RecvNoClose(w) ==
    /\ w \in Workers
    /\ pc[w] = "Receiving"
    /\ queue # <<>>
    /\ job' = [job EXCEPT ![w] = Head(queue)]
    /\ queue' = Tail(queue)
    /\ dequeued' = Append(dequeued, Head(queue))
    /\ pc' = [pc EXCEPT ![w] = "Received"]
    /\ UNCHANGED <<pcMain, size, sender, threads, receiverRefs, mutex, joinIdx,
                   disconnected, numSubmitted, submitters, callerDown, started, completed,
                   queuedAtDrop, sentWhileBusy>>

\* Receiver::recv under the guard: returns the oldest job when there is one,
\* Err once every Sender is gone and the queue is empty, and blocks otherwise.
Recv(w) ==
    /\ w \in Workers
    /\ pc[w] = "Receiving"
    /\ IF queue # <<>>
       THEN /\ job' = [job EXCEPT ![w] = Head(queue)]
            /\ queue' = Tail(queue)
            /\ dequeued' = Append(dequeued, Head(queue))
       ELSE /\ ~sender
            /\ job' = [job EXCEPT ![w] = 0]
            /\ UNCHANGED <<queue, dequeued>>
    /\ pc' = [pc EXCEPT ![w] = "Received"]
    /\ UNCHANGED <<pcMain, size, sender, threads, receiverRefs, mutex, joinIdx,
                   disconnected, numSubmitted, submitters, callerDown, started, completed,
                   queuedAtDrop, sentWhileBusy>>

\* A worker that hands the job to a fresh thread and goes back to recv.
UnlockSpawnsJob(w) ==
    /\ w \in Workers
    /\ pc[w] = "Received"
    /\ mutex' = 0
    /\ IF job[w] # 0
       THEN /\ pc' = [pc EXCEPT ![w] = "Waiting"]
            /\ job' = [job EXCEPT ![w] = 0]
            /\ started' = Append(started, job[w])
            /\ UNCHANGED receiverRefs
       ELSE /\ pc' = [pc EXCEPT ![w] = "Stopped"]
            /\ receiverRefs' = receiverRefs - 1
            /\ UNCHANGED <<started, job>>
    /\ UNCHANGED <<pcMain, size, sender, threads, queue, joinIdx,
                   disconnected, numSubmitted, submitters, callerDown,
                   dequeued, completed, queuedAtDrop, sentWhileBusy>>

\* The guard kept for the whole loop body (`while let Ok(job) =
\* receiver.lock().unwrap().recv()`): released only when the worker breaks.
UnlockKeepGuard(w) ==
    /\ w \in Workers
    /\ pc[w] = "Received"
    /\ IF job[w] # 0
       THEN /\ pc' = [pc EXCEPT ![w] = "Running"]
            /\ started' = Append(started, job[w])
            /\ UNCHANGED <<receiverRefs, mutex>>
       ELSE /\ pc' = [pc EXCEPT ![w] = "Stopped"]
            /\ receiverRefs' = receiverRefs - 1
            /\ mutex' = 0
            /\ UNCHANGED started
    /\ UNCHANGED <<pcMain, size, sender, threads, queue, job, joinIdx,
                   disconnected, numSubmitted, submitters, callerDown, dequeued, completed,
                   queuedAtDrop, sentWhileBusy>>

\* End of `let message = receiver.lock().unwrap().recv();`: the temporary
\* guard is dropped, then the match either calls the job or breaks. Breaking
\* ends the closure, which drops the worker's Arc clone.
Unlock(w) ==
    /\ w \in Workers
    /\ pc[w] = "Received"
    /\ mutex' = 0
    /\ IF job[w] # 0
       THEN /\ pc' = [pc EXCEPT ![w] = "Running"]
            /\ started' = Append(started, job[w])
            /\ UNCHANGED receiverRefs
       ELSE /\ pc' = [pc EXCEPT ![w] = "Stopped"]
            /\ receiverRefs' = receiverRefs - 1
            /\ UNCHANGED started
    /\ UNCHANGED <<pcMain, size, sender, threads, queue, job, joinIdx,
                   disconnected, numSubmitted, submitters, callerDown, dequeued, completed,
                   queuedAtDrop, sentWhileBusy>>

\* A worker closure without the loop: the thread ends after its first job.
JobReturnThenExit(w) ==
    /\ w \in Workers
    /\ pc[w] = "Running"
    /\ completed' = Append(completed, job[w])
    /\ job' = [job EXCEPT ![w] = 0]
    /\ pc' = [pc EXCEPT ![w] = "Stopped"]
    /\ receiverRefs' = receiverRefs - 1
    /\ UNCHANGED <<pcMain, size, sender, threads, queue, mutex, joinIdx,
                   disconnected, numSubmitted, submitters, callerDown,
                   dequeued, started, queuedAtDrop, sentWhileBusy>>

\* job() returns: the worker goes back to the top of its loop.
JobReturn(w) ==
    /\ w \in Workers
    /\ pc[w] = "Running"
    /\ completed' = Append(completed, job[w])
    /\ job' = [job EXCEPT ![w] = 0]
    /\ pc' = [pc EXCEPT ![w] = "Waiting"]
    /\ UNCHANGED <<pcMain, size, sender, threads, queue, receiverRefs, mutex,
                   joinIdx, disconnected, numSubmitted, submitters, callerDown, dequeued,
                   started, queuedAtDrop, sentWhileBusy>>

\* job() panics: the worker thread unwinds and ends, dropping its Arc clone;
\* when that was the last clone the Receiver is dropped with the queued jobs.
JobPanic(w) ==
    /\ w \in Workers
    /\ pc[w] = "Running"
    /\ pc' = [pc EXCEPT ![w] = "Panicked"]
    /\ receiverRefs' = receiverRefs - 1
    /\ queue' = IF receiverRefs = 1 THEN <<>> ELSE queue
    /\ UNCHANGED <<pcMain, size, sender, threads, mutex, job, joinIdx,
                   disconnected, numSubmitted, submitters, callerDown, dequeued, started,
                   completed, queuedAtDrop, sentWhileBusy>>

\* is_finished that always answers true.
is_finishedAlways(w) == TRUE

\* JoinHandle::is_finished.
is_finished(w) == pc[w] \in {"Stopped", "Panicked"}

\* drop that goes on to the joins without releasing the sender.
DropSenderKept ==
    /\ pcMain = "alive"
    /\ pcMain' = "joining"
    /\ joinIdx' = 1
    /\ queuedAtDrop' = Len(queue)
    /\ UNCHANGED <<size, sender, threads, queue, receiverRefs, mutex, pc, job,
                   disconnected, numSubmitted, submitters, callerDown,
                   dequeued, started, completed, sentWhileBusy>>

\* drop, first statement: drop(self.sender.take()).
DropSender ==
    /\ pcMain = "alive"
    /\ sender' = FALSE
    /\ pcMain' = "joining"
    /\ joinIdx' = 1
    /\ queuedAtDrop' = Len(queue)
    /\ UNCHANGED <<size, threads, queue, receiverRefs, mutex, pc, job,
                   disconnected, numSubmitted, submitters, callerDown, dequeued, started,
                   completed, sentWhileBusy>>

\* A turn of the loop that looks at the handle and leaves it in its slot.
TakeHandleLeftInSlot ==
    /\ pcMain = "joining"
    /\ joinIdx <= size
    /\ IF threads[joinIdx]
       THEN IF is_finished(joinIdx)
            THEN /\ disconnected' = Append(disconnected, joinIdx)
                 /\ joinIdx' = joinIdx + 1
                 /\ UNCHANGED pcMain
            ELSE /\ pcMain' = "blocked"
                 /\ UNCHANGED <<disconnected, joinIdx>>
       ELSE /\ joinIdx' = joinIdx + 1
            /\ UNCHANGED <<pcMain, disconnected>>
    /\ UNCHANGED <<size, sender, threads, queue, receiverRefs, mutex, pc, job,
                   numSubmitted, submitters, callerDown, dequeued, started, completed,
                   queuedAtDrop, sentWhileBusy>>

\* drop, one turn of `for thread in &mut self.threads`: take the handle out
\* of its slot; a finished thread is not joined and its line is printed, an
\* unfinished one is joined.
TakeHandle ==
    /\ pcMain = "joining"
    /\ joinIdx <= size
    /\ threads' = [threads EXCEPT ![joinIdx] = FALSE]
    /\ IF threads[joinIdx]
       THEN IF is_finished(joinIdx)
            THEN /\ disconnected' = Append(disconnected, joinIdx)
                 /\ joinIdx' = joinIdx + 1
                 /\ UNCHANGED pcMain
            ELSE /\ pcMain' = "blocked"
                 /\ UNCHANGED <<disconnected, joinIdx>>
       ELSE /\ joinIdx' = joinIdx + 1
            /\ UNCHANGED <<pcMain, disconnected>>
    /\ UNCHANGED <<size, sender, queue, receiverRefs, mutex, pc, job,
                   numSubmitted, submitters, callerDown, dequeued, started, completed,
                   queuedAtDrop, sentWhileBusy>>

\* join that returns without waiting for the worker thread to end.
JoinReturnNoWait ==
    /\ pcMain = "blocked"
    /\ IF pc[joinIdx] = "Panicked"
       THEN /\ pcMain' = "panicked"
            /\ UNCHANGED <<disconnected, joinIdx>>
       ELSE /\ pcMain' = "joining"
            /\ disconnected' = Append(disconnected, joinIdx)
            /\ joinIdx' = joinIdx + 1
    /\ UNCHANGED <<size, sender, threads, queue, receiverRefs, mutex, pc, job,
                   numSubmitted, submitters, callerDown, dequeued, started, completed,
                   queuedAtDrop, sentWhileBusy>>

\* thread.join().unwrap(): returns once the worker thread has ended; Err
\* (the worker panicked) makes unwrap panic inside drop.
JoinReturn ==
    /\ pcMain = "blocked"
    /\ pc[joinIdx] \in {"Stopped", "Panicked"}
    /\ IF pc[joinIdx] = "Panicked"
       THEN /\ pcMain' = "panicked"
            /\ UNCHANGED <<disconnected, joinIdx>>
       ELSE /\ pcMain' = "joining"
            /\ disconnected' = Append(disconnected, joinIdx)
            /\ joinIdx' = joinIdx + 1
    /\ UNCHANGED <<size, sender, threads, queue, receiverRefs, mutex, pc, job,
                   numSubmitted, submitters, callerDown, dequeued, started, completed,
                   queuedAtDrop, sentWhileBusy>>

\* drop returns after the last slot.
DropReturn ==
    /\ pcMain = "joining"
    /\ joinIdx > size
    /\ pcMain' = "returned"
    /\ UNCHANGED <<size, sender, threads, queue, receiverRefs, mutex, pc, job,
                   joinIdx, disconnected, numSubmitted, submitters, callerDown, dequeued,
                   started, completed, queuedAtDrop, sentWhileBusy>>

WorkerStep(w) == Lock(w) \/ Recv(w) \/ Unlock(w) \/ JobReturn(w)

DropStep == TakeHandle \/ JoinReturn \/ DropReturn

\* Jobs that return normally.
Next ==
    \/ \E n \in 0..MaxSize : New(n)
    \/ \E c \in Callers : Execute(c)
    \/ DropSender
    \/ TakeHandle
    \/ JoinReturn
    \/ DropReturn
    \/ \E w \in 1..MaxSize : Lock(w)
    \/ \E w \in 1..MaxSize : Recv(w)
    \/ \E w \in 1..MaxSize : Unlock(w)
    \/ \E w \in 1..MaxSize : JobReturn(w)

Spec == Init /\ [][Next]_vars

\* Jobs that may panic.
NextPanic ==
    \/ Next
    \/ \E w \in 1..MaxSize : JobPanic(w)
    \/ \E c \in Callers : ExecuteFail(c)

PanicSpec == Init /\ [][NextPanic]_vars

\* With panicking jobs, a running job still ends one way or the other.
PanicFairness ==
    /\ \A w \in 1..MaxSize : WF_vars(WorkerStep(w) \/ JobPanic(w))
    /\ WF_vars(DropStep)

\* The pool used as in main: the owner thread alone calls execute, and
\* jobs may panic.
NextOwnerPanic ==
    \/ \E n \in 0..MaxSize : New(n)
    \/ Execute(1)
    \/ ExecuteFail(1)
    \/ DropSender
    \/ TakeHandle
    \/ JoinReturn
    \/ DropReturn
    \/ \E w \in 1..MaxSize : Lock(w)
    \/ \E w \in 1..MaxSize : Recv(w)
    \/ \E w \in 1..MaxSize : Unlock(w)
    \/ \E w \in 1..MaxSize : JobReturn(w)
    \/ \E w \in 1..MaxSize : JobPanic(w)

PanicLiveSpec == Init /\ [][NextOwnerPanic]_vars /\ PanicFairness

\* Callers that still reach the pool and call execute while drop runs.
NextLate ==
    \/ Next
    \/ \E c \in Callers : ExecuteNoSender(c)

LateSpec == Init /\ [][NextLate]_vars

\* Every thread that can take a step eventually does: the workers and the
\* thread inside drop are OS threads; nothing forces a caller to call
\* execute or the owner to construct or drop the pool.
Fairness ==
    /\ \A w \in 1..MaxSize : WF_vars(WorkerStep(w))
    /\ WF_vars(DropStep)

LiveSpec == Spec /\ Fairness

(***************************************************************************)
(* Properties of the pool                                                  *)
(***************************************************************************)

\* The jobs recorded in a history, and how often one is recorded.
Elems(s) == {s[i] : i \in 1..Len(s)}

Count(j, s) == Cardinality({i \in 1..Len(s) : s[i] = j})

\* C1: when drop has returned and every job returned normally, the set of
\* completed jobs equals the set of submitted jobs, every submitted job was
\* dequeued and the queue is empty.
AllJobsRunBeforeDropReturns ==
    pcMain = "returned" =>
        /\ Elems(completed) = 1..numSubmitted
        /\ Elems(dequeued) = 1..numSubmitted
        /\ queue = <<>>

\* Drop returned after starting with at least two jobs still queued.
DropReturnedAfterDraining ==
    /\ pcMain = "returned"
    /\ queuedAtDrop >= 2
    /\ numSubmitted >= 3

\* C2: no job is returned by more than one recv, started more than once or
\* in the hands of more than one worker.
NoDoubleDelivery ==
    \A j \in 1..numSubmitted :
        /\ Count(j, dequeued) <= 1
        /\ Count(j, started) <= 1
        /\ Count(j, completed) <= 1
        /\ Cardinality({w \in Workers : job[w] = j}) <= 1

\* Two workers raced for the receiver and each got a job of its own.
TwoWorkersHoldJobs ==
    \E w1, w2 \in Workers :
        /\ w1 # w2
        /\ pc[w1] = "Running"
        /\ pc[w2] = "Received"
        /\ job[w2] # 0
        /\ queue # <<>>

\* C3: once drop has returned every worker is Stopped: none waits for the
\* lock, holds it, or runs a job.
AllStoppedWhenDropReturns ==
    pcMain = "returned" =>
        /\ \A w \in Workers : pc[w] = "Stopped" /\ job[w] = 0
        /\ mutex = 0

\* Drop returned for a pool of several workers that ran jobs during teardown.
DropReturnedAllStopped ==
    /\ pcMain = "returned"
    /\ size >= 2
    /\ queuedAtDrop >= 1
    /\ Len(disconnected) = size

\* C4: once the sender is released, every worker eventually stops and drop
\* eventually returns.
ShutdownCompletes ==
    (size > 0 /\ ~sender) ~>
        (pcMain = "returned" /\ \A w \in Workers : pc[w] = "Stopped")

\* The sender is released while one worker sits in recv on an empty queue
\* holding the lock and another waits for the lock behind it.
BlockedBehindReceiver ==
    /\ size > 0
    /\ ~sender
    /\ queue = <<>>
    /\ \E w1, w2 \in Workers :
        /\ pc[w1] = "Receiving"
        /\ mutex = w1
        /\ pc[w2] = "Waiting"

\* C5: recv reports closed only when the sender is released and the queue is
\* empty, so no worker is Stopped while a job is queued or while the pool
\* holds the sender.
ClosedOnlyWhenDrained ==
    \A w \in Workers :
        /\ (pc[w] = "Received" /\ job[w] = 0) => (~sender /\ queue = <<>>)
        /\ pc[w] = "Stopped" => (~sender /\ queue = <<>>)

\* A worker stopped after the jobs that were queued at release were handed out.
StoppedAfterQueuedJobs ==
    /\ queuedAtDrop >= 1
    /\ Len(dequeued) = numSubmitted
    /\ \E w \in Workers : pc[w] = "Stopped"

\* C6: jobs are dequeued in the order they were sent; a pool of one worker
\* also starts and completes them in that order, each job starting only
\* after every earlier one completed.
FifoOrder ==
    /\ \A i \in 1..Len(dequeued) : dequeued[i] = i
    /\ size = 1 =>
        /\ \A i \in 1..Len(started) : started[i] = i
        /\ \A i \in 1..Len(completed) : completed[i] = i
        /\ \A w \in Workers : pc[w] = "Running" =>
               \A j \in 1..(job[w] - 1) : Count(j, completed) = 1

\* Several jobs were queued together and then dequeued by several workers.
QueuedJobsDequeued ==
    /\ size >= 2
    /\ queuedAtDrop >= 2
    /\ Len(dequeued) >= 2

\* C7: at most one worker is inside the lock-and-receive step, and it is the
\* holder of the mutex.
MutualExclusion ==
    /\ Cardinality({w \in Workers : pc[w] \in {"Receiving", "Received"}}) <= 1
    /\ \A w \in Workers : pc[w] \in {"Receiving", "Received"} => mutex = w

\* One worker removes a job while another waits for the lock with jobs queued.
LockContended ==
    \E w1, w2 \in Workers :
        /\ pc[w1] = "Received"
        /\ job[w1] # 0
        /\ pc[w2] = "Waiting"
        /\ queue # <<>>

\* C8: a worker that is running a job does not hold the lock (so two workers
\* can run jobs at once, and one can dequeue while another runs).
GuardReleasedBeforeJob ==
    \A w \in Workers : pc[w] = "Running" => mutex # w

\* Two workers run different jobs at the same time.
TwoJobsRunning ==
    \E w1, w2 \in Workers :
        /\ w1 # w2
        /\ pc[w1] = "Running"
        /\ pc[w2] = "Running"
        /\ job[w1] # job[w2]

\* C9: after drop returns, every job sent by any caller was started and
\* completed exactly once.
ExactlyOnceForEveryCaller ==
    pcMain = "returned" =>
        /\ Len(completed) = numSubmitted
        /\ \A j \in 1..numSubmitted :
               Count(j, started) = 1 /\ Count(j, completed) = 1

\* Drop returned after every caller sent at least one job.
DropReturnedAfterAllCallersSent ==
    /\ pcMain = "returned"
    /\ submitters = Callers
    /\ Cardinality(submitters) >= 2

\* C10: while the pool is alive execute can always complete, whatever the
\* workers do and however long the queue is, and it completes by appending
\* one job and touching no worker.
ExecuteNeverBlocks ==
    (pcMain = "alive" /\ numSubmitted < MaxJobs) =>
        \A c \in Callers \ callerDown :
            ENABLED (/\ Execute(c)
                     /\ queue' = Append(queue, numSubmitted + 1)
                     /\ pc' = pc
                     /\ dequeued' = dequeued
                     /\ started' = started)

\* A send completed while every worker of a pool of several workers was
\* running a job, and the job it appended is still queued behind them.
SentWhileAllRunning ==
    /\ sentWhileBusy
    /\ size >= 2
    /\ AllRunning
    /\ queue # <<>>

\* C11: new(n) with n >= 1 yields a pool that holds the sender and exactly n
\* worker handles, ids 1..n, every worker Waiting, the queue empty and no job
\* dequeued, started or completed; new(0) aborts and leaves no pool, no
\* sender and no worker, and nothing runs afterwards.
NewBuildsExactlySizeWorkers ==
    /\ [][\A n \in 0..MaxSize : New(n) =>
            IF n >= 1
            THEN /\ pcMain' = "alive"
                 /\ size' = n
                 /\ sender'
                 /\ receiverRefs' = n
                 /\ DOMAIN threads' = 1..n
                 /\ DOMAIN pc' = 1..n
                 /\ \A i \in 1..n :
                        threads'[i] /\ pc'[i] = "Waiting" /\ job'[i] = 0
                 /\ mutex' = 0
                 /\ queue' = <<>>
                 /\ dequeued' = <<>> /\ started' = <<>> /\ completed' = <<>>
            ELSE /\ pcMain' = "aborted"
                 /\ size' = 0
                 /\ ~sender'
                 /\ threads' = <<>>
                 /\ pc' = <<>>]_vars
    /\ [](pcMain = "aborted" =>
            /\ size = 0 /\ ~sender /\ threads = <<>> /\ pc = <<>>
            /\ numSubmitted = 0 /\ started = <<>>)

\* A pool of several workers right after construction.
FreshPoolOfSeveralWorkers ==
    /\ pcMain = "alive"
    /\ size >= 2
    /\ numSubmitted = 0
    /\ \A w \in Workers : threads[w] /\ pc[w] = "Waiting"

\* C12: drop releases the sender before it takes any worker handle, and it
\* takes, joins and reports the workers one at a time in ascending id order:
\* the handle of worker w is taken only after every worker below w has ended
\* and been reported, whatever order the workers end in.
TeardownOrder ==
    /\ \A i \in 1..Len(disconnected) : disconnected[i] = i
    /\ Len(disconnected) > 0 => ~sender
    /\ \A w \in Workers :
           ~threads[w] =>
               /\ ~sender
               /\ \A v \in 1..(w - 1) :
                      /\ ~threads[v]
                      /\ pc[v] \in {"Stopped", "Panicked"}
                      /\ v <= Len(disconnected)
    /\ \A w \in Workers :
           w <= Len(disconnected) =>
               ~threads[w] /\ pc[w] \in {"Stopped", "Panicked"}

\* Worker 2 has stopped first, and drop still waits in the join of worker 1
\* without having taken the handle of worker 2.
LaterWorkerStoppedFirst ==
    /\ size >= 2
    /\ pcMain = "blocked"
    /\ joinIdx = 1
    /\ pc[1] = "Running"
    /\ pc[2] = "Stopped"
    /\ threads[2]
    /\ disconnected = <<>>

\* C13: a job that panics takes down only its own worker: drop does not
\* fail because of it, it still takes every handle and returns, and the
\* other workers stop only when the channel is closed and drained.
JobFailureContained ==
    /\ pcMain # "panicked"
    /\ pcMain = "returned" =>
           /\ Len(disconnected) = size
           /\ \A w \in Workers : ~threads[w]
    /\ \A w \in Workers : pc[w] = "Stopped" => (~sender /\ queue = <<>>)

\* C14: however many workers have died of job panics, all of them included,
\* no execute on the live pool fails in its caller.
ExecuteSurvivesWorkerDeath ==
    pcMain = "alive" => callerDown = {}

\* The state of section 4.5 a worker is in: it is Waiting from the top of
\* its loop until the guard is dropped.
Phase(p) == IF p \in {"Waiting", "Receiving", "Received"} THEN "Waiting" ELSE p

\* C15: a worker goes Waiting -> Running only with the job its recv just
\* returned, Running -> Waiting when that job returns (a panicking job ends
\* the thread instead), Waiting -> Stopped only after recv reported closed;
\* it makes no other move, and a Stopped worker stays Stopped.
WorkerStateMachine ==
    [][\A w \in Workers :
        LET from == Phase(pc[w])
            to == Phase(pc'[w])
        IN  from # to =>
              \/ /\ from = "Waiting" /\ to = "Running"
                 /\ pc[w] = "Received"
                 /\ job[w] # 0
                 /\ job[w] = dequeued[Len(dequeued)]
                 /\ job'[w] = job[w]
              \/ /\ from = "Running" /\ to = "Waiting"
                 /\ completed' = Append(completed, job[w])
              \/ /\ from = "Running" /\ to = "Panicked"
              \/ /\ from = "Waiting" /\ to = "Stopped"
                 /\ pc[w] = "Received"
                 /\ job[w] = 0
                 /\ ~sender
                 /\ queue = <<>>]_vars

\* A single worker ran two jobs, one after the other, and then stopped.
WorkerRanJobsThenStopped ==
    /\ size = 1
    /\ pc[1] = "Stopped"
    /\ Len(completed) >= 2

\* Position of job j in history s (0 when it is not there).
Pos(j, s) == IF j \in Elems(s) THEN CHOOSE i \in 1..Len(s) : s[i] = j ELSE 0

\* C16: a later-sent job may complete before an earlier-sent one, and when
\* it does the pool has at least two workers and the earlier job was still
\* dequeued first.
CompletionMayOvertake ==
    \A j1, j2 \in 1..numSubmitted :
        (/\ j1 < j2
         /\ j2 \in Elems(completed)
         /\ (j1 \notin Elems(completed) \/ Pos(j2, completed) < Pos(j1, completed)))
        => /\ size >= 2
           /\ j1 \in Elems(dequeued)
           /\ Pos(j1, dequeued) < Pos(j2, dequeued)

\* Job 2 has completed while job 1, dequeued first, is still running.
SecondJobCompletedFirst ==
    /\ size >= 2
    /\ dequeued = <<1, 2>>
    /\ completed = <<2>>
    /\ \E w \in Workers : pc[w] = "Running" /\ job[w] = 1

\* C17: once drop has released the sender, an execute can only panic in its
\* caller: it cannot enqueue, it does panic, and it leaves the queue and the
\* set of submitted jobs as they were, so its job never runs.
LateExecutePanics ==
    (PoolExists /\ ~sender) =>
        /\ \A c \in Callers \ callerDown :
               /\ ~ENABLED Execute(c)
               /\ ENABLED (/\ ExecuteNoSender(c)
                           /\ c \in callerDown'
                           /\ queue' = queue
                           /\ numSubmitted' = numSubmitted)
        /\ Elems(queue) \cup Elems(started) \subseteq 1..numSubmitted
        /\ Len(started) <= numSubmitted

\* An execute issued during teardown has panicked while jobs sent before
\* the release are still queued.
LateExecuteHasPanicked ==
    /\ pcMain \in {"joining", "blocked"}
    /\ callerDown # {}
    /\ queue # <<>>

\* C18: a worker that died running a job does not hold the lock; every
\* queued job is eventually started by a surviving worker unless every
\* worker has died; and after the sender is released every surviving worker
\* eventually stops.
SurvivorsKeepDequeuing ==
    /\ [](\A w \in Workers : pc[w] = "Panicked" => mutex # w)
    /\ \A j \in 1..MaxJobs :
           (j \in Elems(queue)) ~>
               (j \in Elems(started) \/ \A w \in Workers : pc[w] = "Panicked")
    /\ (size > 0 /\ ~sender) ~>
           (\A w \in Workers : pc[w] \in {"Stopped", "Panicked"})

\* One worker has died, the lock is free, a job is queued and a surviving
\* worker is about to take the lock.
SurvivorFacesQueuedJob ==
    /\ mutex = 0
    /\ queue # <<>>
    /\ \E w1, w2 \in Workers :
           /\ pc[w1] = "Panicked"
           /\ pc[w2] = "Waiting"

\* Jobs that were started and have neither returned nor panicked.
InProgress ==
    {j \in Elems(started) :
        /\ j \notin Elems(completed)
        /\ ~\E w \in Workers : pc[w] = "Panicked" /\ job[w] = j}

\* C19: every job in progress is run by exactly one Running worker and every
\* Running worker runs one job in progress, so at most `size` jobs execute
\* at once; the set of workers is fixed once the pool is built.
BoundedParallelism ==
    /\ [](/\ \A j \in InProgress :
                Cardinality({w \in Workers : pc[w] = "Running" /\ job[w] = j}) = 1
          /\ \A w \in Workers : pc[w] = "Running" => job[w] \in InProgress
          /\ Cardinality(InProgress) <= size
          /\ DOMAIN pc = 1..size
          /\ DOMAIN threads = 1..size)
    /\ [][size > 0 => size' = size]_vars

\* Every worker of a pool of several runs a job while another job waits in
\* the queue.
PoolSaturated ==
    /\ size >= 2
    /\ Cardinality(InProgress) = size
    /\ Len(queue) >= 1

\* C20: the sender is released once, by the first statement of drop, and is
\* never put back; each handle leaves its slot once, at its own turn of the
\* loop, and is never put back; a join starts only on a handle just taken;
\* a worker already finished at its turn is recorded at that turn, without
\* a join; when drop has returned the sender slot and every worker slot are
\* empty and every worker was recorded once.
TakeOnceSlots ==
    /\ [](/\ \A w \in Workers : Count(w, disconnected) <= 1
          /\ pcMain = "returned" =>
                /\ ~sender
                /\ \A w \in Workers : ~threads[w]
                /\ disconnected = [i \in 1..size |-> i])
    /\ [][/\ sender /\ ~sender' => pcMain = "alive" /\ pcMain' = "joining"
          /\ ~sender /\ sender' => pcMain = "start"
          /\ \A w \in Workers :
                /\ threads[w] /\ ~threads'[w] => pcMain = "joining" /\ joinIdx = w
                /\ ~threads[w] => ~threads'[w]
          /\ pcMain # "blocked" /\ pcMain' = "blocked" =>
                threads[joinIdx] /\ ~threads'[joinIdx]
          /\ \A w \in Workers :
                (/\ pcMain = "joining" /\ joinIdx = w /\ threads[w]
                 /\ pc[w] \in {"Stopped", "Panicked"}
                 /\ <<joinIdx, threads, pcMain>>' # <<joinIdx, threads, pcMain>>) =>
                    /\ pcMain' = "joining"
                    /\ ~threads'[w]
                    /\ disconnected' = Append(disconnected, w)
                    /\ joinIdx' = w + 1]_vars

\* drop has returned from a pool one of whose workers had died of a panic:
\* that worker was finished at its turn and was recorded without a join.
TeardownPassedDeadWorker ==
    /\ pcMain = "returned"
    /\ size >= 2
    /\ \E w \in Workers : pc[w] = "Panicked"

====
